---- MODULE Spec2Model ----
(***************************************************************************)
(* Model of the video analyzer: VideoData, DataPreparationService,         *)
(* YoloModel, AnalyzerService, the HTTP endpoint analyze_video and the     *)
(* dashboard's main().  Strings that the code inspects character by        *)
(* character (class names, target names) are sequences of one-character    *)
(* strings; an optional value is <<>> (None) or <<v>>.  Confidence values  *)
(* are in hundredths (45 stands for 0.45).                                 *)
(***************************************************************************)
EXTENDS Integers, Sequences, FiniteSets, TLC

\* ---------------------------------------------------------------- bounds
MaxCount == 1
MaxVideoLen == 2

\* ------------------------------------------------------------- constants
model_confidence_value == 45
HardFrameCap == 500
total_number_frames == 100

\* --------------------------------------------------------------- strings
car == <<"c", "a", "r">>
Car == <<"C", "a", "r">>
dog == <<"d", "o", "g">>
hot_dog == <<"h", "o", "t", " ", "d", "o", "g">>
person == <<"p", "e", "r", "s", "o", "n">>

\* str.lower() on one character
lower_char(ch) ==
  CASE ch = "C" -> "c"
    [] ch = "D" -> "d"
    [] ch = "H" -> "h"
    [] ch = "P" -> "p"
    [] OTHER -> ch

\* str.lower()
lower(s) == [i \in 1..Len(s) |-> lower_char(s[i])]

\* Python's `key in text` for two strings: key occurs as a substring of text
str_in(key, text) ==
  \E i \in 0..(Len(text) - Len(key)) : SubSeq(text, i + 1, i + Len(key)) = key

\* -------------------------------------------------------------- requests
default_video_url == "https://youtu.be/MNn9qKG2UFI"
Urls == {default_video_url, "not-a-url", "url@youtube.com", ""}

\* the attributes VideoData.__init__ sets on the object
video_data_attributes == {"url"}

\* validators.url(url): truthy exactly for a syntactically valid URL
validators_url(url) == url \in {default_video_url}

TargetNone == [kind |-> "none", str |-> <<>>, list |-> <<>>]
TargetStr(s) == [kind |-> "str", str |-> s, list |-> <<>>]
TargetList(l) == [kind |-> "list", str |-> <<>>, list |-> l]

\* the names the model was trained on (model.names: class id -> class name)
model_names == (2 :> car) @@ (16 :> dog)
ClassIds == DOMAIN model_names

\* YoloModel._get_model_classes: ids and the id -> name mapping
get_model_classes == <<ClassIds, model_names>>
\* a mapping that gives the ids each other's names
classes_mapping_dict_crossed == (2 :> dog) @@ (16 :> car)

classes_mapping_dict == get_model_classes[2]

\* YoloModel._map_model_classes: the class names the model can report
class_names == {model_names[i] : i \in ClassIds}

StrTargets == {TargetStr(car), TargetStr(Car), TargetStr(hot_dog),
               TargetStr(person)}
DashTargets == {TargetNone, TargetList(<<car>>)}
Targets == StrTargets \cup DashTargets

ModelFamilies == {"yolov5", "yolov8", "yolov99"}
ModelVersions == {"yolov5s", "yolov8n.pt", "yolov8n-seg.pt", "yolov9x"}
ModelChoices == {"yolov5", "yolov8"}
NumberFrames == {1, total_number_frames}

\* confidence arguments: None, or a number of hundredths
Confidences == {<<>>, <<-50>>, <<0>>, <<1>>, <<45>>, <<100>>, <<101>>, <<150>>}

\* positions of the dashboard's confidence slider (0.1 to 1.0)
SliderConfidences == {10, 45, 100}

\* a frame is known by what the detector sees in it: class id -> detections
Frames == [ClassIds -> 0..MaxCount]
RECURSIVE SeqsUpTo(_, _)
SeqsUpTo(S, n) ==
  IF n = 0 THEN {<<>>}
  ELSE LET shorter == SeqsUpTo(S, n - 1)
       IN shorter \cup {Append(s, x) : s \in {t \in shorter : Len(t) = n - 1}, x \in S}
Videos == SeqsUpTo(Frames, MaxVideoLen)

\* ---------------------------------------------------- dicts and Counters
EmptyDict == [k \in {} |-> 0]

\* dict.get(k, 0) and Counter.__getitem__ (a missing key counts 0)
Get(d, k) == IF k \in DOMAIN d THEN d[k] ELSE 0

\* Counter.__iadd__: add the counts key by key, keep the positive ones
CounterAdd(a, b) ==
  LET keys == DOMAIN a \cup DOMAIN b
      raw == [k \in keys |-> Get(a, k) + Get(b, k)]
  IN [k \in {x \in keys : raw[x] > 0} |-> raw[k]]

\* ------------------------------------------------------------- YoloModel
accepted_model_family == {"yolov5", "yolov8"}

\* torch.hub.list("ultralytics/yolov5"): the entry points of the hub repository
torch_hub_list == {"yolov5n", "yolov5s"}

\* the accepted versions of a family, as _load_model looks them up
available_model_versions(family) ==
  IF family = "yolov5" THEN torch_hub_list
  ELSE {"yolov8n.pt", "yolov8n-seg.pt"}

\* _load_model without the version check of the yolov8 branch
load_model_without_yolov8_version_check(family, version) ==
  IF family \notin accepted_model_family
  THEN [error |-> "InvalidModelFamily", accesses |-> <<>>, loaded |-> FALSE]
  ELSE LET listing == IF family = "yolov5" THEN <<"hub_list">> ELSE <<>>
       IN IF family = "yolov5" /\ version \notin available_model_versions(family)
          THEN [error |-> "InvalidModelVersion", accesses |-> listing,
                loaded |-> FALSE]
          ELSE [error |-> "none", accesses |-> listing \o <<"hub_load">>,
                loaded |-> TRUE]

\* YoloModel.__init__ / _load_model: the error raised ("none" when the model
\* is loaded) and the external accesses made, in order
load_model(family, version) ==
  IF family \notin accepted_model_family
  THEN [error |-> "InvalidModelFamily", accesses |-> <<>>, loaded |-> FALSE]
  ELSE LET listing == IF family = "yolov5" THEN <<"hub_list">> ELSE <<>>
       IN IF version \notin available_model_versions(family)
          THEN [error |-> "InvalidModelVersion", accesses |-> listing,
                loaded |-> FALSE]
          ELSE [error |-> "none", accesses |-> listing \o <<"hub_load">>,
                loaded |-> TRUE]

\* get_model_attributes (api/index.py and streamlit_app/app.py): the model
\* configuration of a selection, None (<<>>) for any other string
get_model_attributes(model_selection) ==
  IF model_selection = "yolov5"
  THEN <<[model_family |-> "yolov5", model_version |-> "yolov5s"]>>
  ELSE IF model_selection = "yolov8"
       THEN <<[model_family |-> "yolov8", model_version |-> "yolov8n.pt"]>>
       ELSE <<>>

\* load_model_service: subscripting None raises TypeError before YoloModel
\* is constructed
load_model_service(model_selection) ==
  LET model_config_dict == get_model_attributes(model_selection)
  IN IF model_config_dict = <<>>
     THEN [error |-> "TypeError", accesses |-> <<>>, loaded |-> FALSE,
           family |-> model_selection, version |-> ""]
     ELSE LET r == load_model(model_config_dict[1].model_family,
                              model_config_dict[1].model_version)
          IN [error |-> r.error, accesses |-> r.accesses, loaded |-> r.loaded,
              family |-> model_config_dict[1].model_family,
              version |-> model_config_dict[1].model_version]

\* a filter that reports, for each class it keeps, all detections of the frame
filter_by_target_counting_all(classes_present, target_name) ==
  IF target_name.kind # "str"
  THEN [error |-> "AttributeError", class_summary |-> EmptyDict]
  ELSE LET text == lower(target_name.str)
           kept == {k \in DOMAIN classes_present : str_in(k, text)}
           all == Cardinality(DOMAIN classes_present)
       IN [error |-> "none",
           class_summary |-> [k \in kept |-> classes_present[k] + all - 1]]

\* the dict comprehension that keeps the classes matching target_name;
\* target_name.lower() exists only for a str
filter_by_target(classes_present, target_name) ==
  IF target_name.kind # "str"
  THEN [error |-> "AttributeError", class_summary |-> EmptyDict]
  ELSE LET text == lower(target_name.str)
           kept == {k \in DOMAIN classes_present : str_in(k, text)}
       IN [error |-> "none",
           class_summary |-> [k \in kept |-> classes_present[k]]]

\* results.pandas().xyxy[0][["name"]].value_counts("name").to_dict()
value_counts_by_name(image) ==
  LET present == {model_names[i] : i \in {j \in ClassIds : image[j] > 0}}
  IN [n \in present |->
        image[CHOOSE i \in ClassIds : model_names[i] = n]]

\* Counter([int(xx) for xx in inference_result.boxes.cls.numpy()])
counter_of_class_ids(image) ==
  [i \in {j \in ClassIds : image[j] > 0} |-> image[i]]

\* YoloModel._predict_yolov5: the confidence is set on the model, the model
\* is run on the image (model_ok: it does not raise), the classes are filtered
predict_yolov5(image, model_confidence, target_name, model_ok) ==
  IF ~model_ok
  THEN [variant |-> "yolov5", conf |-> model_confidence, error |-> "InferenceError",
        class_summary |-> EmptyDict]
  ELSE LET f == filter_by_target(value_counts_by_name(image), target_name)
       IN [variant |-> "yolov5", conf |-> model_confidence, error |-> f.error,
           class_summary |-> f.class_summary]

\* YoloModel._predict_yolov8
predict_yolov8(image, model_confidence, target_name, model_ok) ==
  IF ~model_ok
  THEN [variant |-> "yolov8", conf |-> model_confidence, error |-> "InferenceError",
        class_summary |-> EmptyDict]
  ELSE LET by_id == counter_of_class_ids(image)
           by_name == [n \in {classes_mapping_dict[i] : i \in DOMAIN by_id} |->
                         by_id[CHOOSE i \in DOMAIN by_id :
                                 classes_mapping_dict[i] = n]]
           f == filter_by_target(by_name, target_name)
       IN [variant |-> "yolov8", conf |-> model_confidence, error |-> f.error,
           class_summary |-> f.class_summary]

\* the check without its upper limit: a confidence above 1.0 reaches the model
checked_confidence_without_upper_limit(model_confidence) ==
  IF model_confidence = <<>> \/ model_confidence[1] = 0
     \/ model_confidence[1] <= 0
  THEN model_confidence_value
  ELSE model_confidence[1]

\* the check of model_confidence at the head of YoloModel.predict
checked_confidence(model_confidence) ==
  IF model_confidence = <<>> \/ model_confidence[1] = 0
     \/ model_confidence[1] <= 0 \/ model_confidence[1] > 100
  THEN model_confidence_value
  ELSE model_confidence[1]

\* YoloModel.predict
predict(model_family, image, target_name, model_confidence, model_ok) ==
  IF model_family = "yolov8"
  THEN predict_yolov8(image, checked_confidence(model_confidence),
                      target_name, model_ok)
  ELSE predict_yolov5(image, checked_confidence(model_confidence),
                      target_name, model_ok)

\* ---------------------------------------------- DataPreparationService
\* DataPreparationService.__init__(self, video_obj): the keyword arguments
\* the constructor accepts
prep_service_init_accepts(kwargs) == kwargs \subseteq {"video_obj"}

\* ---------------------------------------------- AnalyzeVideoResponse
\* AnalyzeVideoResponse(BaseModel): every declared field is required, and
\* target_item is declared a str
response_fields == {"results", "target_item", "video_url"}
response_validates(kwargs) ==
  /\ response_fields \subseteq kwargs.names
  /\ kwargs.target_item.kind = "str"

\* ---------------------------------------------------- AnalysisResults
\* the per-frame result object built in run_image_analysis
AnalysisResults(original_image, output_image, inference_results_of_frame) ==
  [original_image |-> original_image, output_image |-> output_image,
   inference_results |-> inference_results_of_frame]

\* ------------------------------------------------------------------ state
VARIABLES
  entry,              \* who runs: "api", "dashboard", "service", "model",
                      \* "download_video"
  req,                \* the arguments of the request
  pc,                 \* position in the request
  error,              \* the exception raised, "none" when none
  outcome,            \* how the request ended for its caller
  shown,              \* the message the caller gets: HTTP detail, warning text
  accesses,           \* external accesses made so far, in order
  model_service,      \* <<>> or <<the loaded YoloModel>>
  env,                \* what the URL resolves to: file and frames
  video_frames_dict,  \* frames read so far (frame index i is element i+1)
  frame_idx,          \* the read loop's frame index
  inference_results,  \* per-frame results so far
  last_predict,       \* <<>> or <<the last call of predict and its result>>
  returned,           \* <<>> or <<the mapping run_image_analysis returned>>
  summary,            \* target_items_counts of consolidate_results
  response,           \* <<>> or <<the keyword arguments given to the response>>
  \* several requests served by one process
  requests,           \* request id -> the request's own state
  files,              \* the scratch paths written so far -> the video in them
  models,             \* the YoloModel objects constructed -> their confidence
  loads,              \* the (family, version) weights loaded, in order
  \* one call of run_image_analysis, dicts kept as their items in order
  run_pc,             \* where the call is
  run_in,             \* the video behind the URL, the model family, the target
  capture_reads,      \* the calls of video_cv.read() made so far
  frames_dict,        \* video_frames_dict: items [key, value] as inserted
  extract_idx,        \* frame_idx of the extraction loop
  loop_pos,           \* the items of video_frames_dict the for loop has taken
  results_dict,       \* inference_results: items [key, value] as inserted
  predict_calls,      \* the frame indices predict was called for, in order
  run_returned,       \* <<>> or <<the mapping run_image_analysis returned>>
  consolidate_pos,    \* the items consolidate_results has taken
  run_counts,         \* target_items_counts of consolidate_results
  run_error

conc_vars == <<requests, files, models, loads>>

run_vars == <<run_pc, run_in, capture_reads, frames_dict, extract_idx,
              loop_pos, results_dict, predict_calls, run_returned,
              consolidate_pos, run_counts, run_error>>

vars == <<entry, req, pc, error, outcome, shown, accesses, model_service, env,
          video_frames_dict, frame_idx, inference_results, last_predict,
          returned, summary, response, requests, files, models, loads,
          run_pc, run_in, capture_reads, frames_dict, extract_idx, loop_pos,
          results_dict, predict_calls, run_returned, consolidate_pos,
          run_counts, run_error>>

NoRequest == [url |-> "", target_item |-> TargetNone, number_frames |-> 0,
              via |-> "", model_family |-> "", model_version |-> "",
              model_confidence |-> <<>>]
\* the requests one process serves side by side
Requests == {1, 2}

\* a request that has not started
NoRequestState ==
  [pc |-> "start", kind |-> "", url |-> "", target |-> TargetNone,
   family |-> "", conf |-> <<>>, video |-> <<>>, model |-> 0, path |-> 0,
   frames |-> <<>>, results |-> <<>>, confs |-> <<>>, returned |-> <<>>,
   summary |-> EmptyDict, error |-> "none"]

\* no call of run_image_analysis yet
NoRun == [video |-> <<>>, family |-> "", target |-> TargetNone]

NoEnv == [has_stream |-> FALSE, file_exists |-> FALSE, frames |-> <<>>]

Init ==
  /\ entry = "none"
  /\ req = NoRequest
  /\ pc = "idle"
  /\ error = "none"
  /\ outcome = "none"
  /\ shown = ""
  /\ accesses = <<>>
  /\ model_service = <<>>
  /\ env = NoEnv
  /\ video_frames_dict = <<>>
  /\ frame_idx = 0
  /\ inference_results = <<>>
  /\ last_predict = <<>>
  /\ returned = <<>>
  /\ summary = EmptyDict
  /\ response = <<>>
  /\ requests = [r \in Requests |-> NoRequestState]
  /\ files = <<>>
  /\ models = <<>>
  /\ loads = <<>>
  /\ run_pc = "start"
  /\ run_in = NoRun
  /\ capture_reads = 0
  /\ frames_dict = <<>>
  /\ extract_idx = 0
  /\ loop_pos = 0
  /\ results_dict = <<>>
  /\ predict_calls = <<>>
  /\ run_returned = <<>>
  /\ consolidate_pos = 0
  /\ run_counts = EmptyDict
  /\ run_error = "none"

\* the endpoint catching ValueError only: any other exception escapes it
surfaced_value_errors_only(e, stage) ==
  CASE entry = "api" -> IF e = "InvalidURL" THEN "http500" ELSE "raised"
    [] entry = "dashboard" ->
         IF stage = "VideoData" THEN "warning" ELSE "suppressed"
    [] OTHER -> "raised"

\* an exception leaves the request: the endpoint turns it into HTTP 500, the
\* dashboard shows the one raised by VideoData and suppresses the others,
\* a direct caller sees it raised
surfaced(e, stage) ==
  CASE entry = "api" -> "http500"
    [] entry = "dashboard" ->
         IF stage = "VideoData" THEN "warning" ELSE "suppressed"
    [] OTHER -> "raised"

\* the text that reaches the caller with it: str(e) as the detail of the
\* HTTP 500 or in the warning, the exception itself for a direct caller,
\* nothing when the exception is suppressed
message(e, stage) ==
  IF surfaced(e, stage) = "suppressed" THEN "" ELSE e

Fail(e, stage) ==
  /\ error' = e
  /\ pc' = "failed"
  /\ outcome' = surfaced(e, stage)
  /\ shown' = message(e, stage)

\* ----------------------------------------------------------- entry points
\* POST /analyze_video2: the query parameters of a request
ApiRequest ==
  /\ pc = "idle"
  /\ UNCHANGED conc_vars
  /\ UNCHANGED run_vars
  /\ \E url \in Urls, target \in StrTargets, n \in NumberFrames,
        selection \in ModelChoices :
       req' = [url |-> url, target_item |-> target, number_frames |-> n,
               via |-> "load_model_service", model_family |-> selection,
               model_version |-> "", model_confidence |-> <<>>]
  /\ entry' = "api"
  /\ pc' = "video_data"
  /\ UNCHANGED <<error, outcome, shown, accesses, model_service, env,
                 video_frames_dict, frame_idx, inference_results,
                 last_predict, returned, summary, response>>

\* main(): build_page, get_media_url and get_target_item read the sidebar
DashboardRequest ==
  /\ pc = "idle"
  /\ UNCHANGED conc_vars
  /\ UNCHANGED run_vars
  /\ \E url \in Urls, target \in DashTargets, n \in NumberFrames,
        selection \in ModelChoices, confidence \in SliderConfidences :
       req' = [url |-> url, target_item |-> target, number_frames |-> n,
               via |-> "load_model_service", model_family |-> selection,
               model_version |-> "", model_confidence |-> <<confidence>>]
  /\ entry' = "dashboard"
  /\ pc' = "main_load_model"
  /\ UNCHANGED <<error, outcome, shown, accesses, model_service, env,
                 video_frames_dict, frame_idx, inference_results,
                 last_predict, returned, summary, response>>

\* the services composed by a caller, as the modules' __main__ blocks do
ServiceRequest ==
  /\ pc = "idle"
  /\ UNCHANGED conc_vars
  /\ UNCHANGED run_vars
  /\ \E url \in Urls, target \in Targets, n \in NumberFrames :
       \/ \E family \in ModelFamilies, version \in ModelVersions :
            req' = [url |-> url, target_item |-> target, number_frames |-> n,
                    via |-> "YoloModel", model_family |-> family,
                    model_version |-> version, model_confidence |-> <<>>]
       \/ \E selection \in ModelFamilies :
            req' = [url |-> url, target_item |-> target, number_frames |-> n,
                    via |-> "load_model_service", model_family |-> selection,
                    model_version |-> "", model_confidence |-> <<>>]
  /\ entry' = "service"
  /\ pc' = "video_data"
  /\ UNCHANGED <<error, outcome, shown, accesses, model_service, env,
                 video_frames_dict, frame_idx, inference_results,
                 last_predict, returned, summary, response>>

\* yolo_model.py __main__: a model is constructed and predict is called
ModelRequest ==
  /\ pc = "idle"
  /\ UNCHANGED conc_vars
  /\ UNCHANGED run_vars
  /\ \E target \in Targets, family \in ModelFamilies,
        version \in ModelVersions, confidence \in Confidences :
       req' = [url |-> "", target_item |-> target, number_frames |-> 0,
               via |-> "YoloModel", model_family |-> family,
               model_version |-> version, model_confidence |-> confidence]
  /\ entry' = "model"
  /\ pc' = "load_model"
  /\ UNCHANGED <<error, outcome, shown, accesses, model_service, env,
                 video_frames_dict, frame_idx, inference_results,
                 last_predict, returned, summary, response>>

\* video_service.download_video(url)
DownloadVideoRequest ==
  /\ pc = "idle"
  /\ UNCHANGED conc_vars
  /\ UNCHANGED run_vars
  /\ \E url \in Urls :
       req' = [url |-> url, target_item |-> TargetNone, number_frames |-> 0,
               via |-> "", model_family |-> "", model_version |-> "",
               model_confidence |-> <<>>]
  /\ entry' = "download_video"
  /\ pc' = "video_data"
  /\ UNCHANGED <<error, outcome, shown, accesses, model_service, env,
                 video_frames_dict, frame_idx, inference_results,
                 last_predict, returned, summary, response>>

\* ------------------------------------------------------- construction
\* VideoData.__init__ / _validate_video_url, called by analyze_video, by
\* download_video and by a direct caller
video_data ==
  /\ pc = "video_data"
  /\ UNCHANGED conc_vars
  /\ UNCHANGED run_vars
  /\ IF validators_url(req.url)
     THEN /\ pc' = IF entry = "download_video" THEN "download_stream"
                   ELSE "prep_service"
          /\ UNCHANGED <<error, outcome, shown>>
     ELSE Fail("InvalidURL", "VideoData")
  /\ UNCHANGED <<entry, req, accesses, model_service, env, video_frames_dict,
                 frame_idx, inference_results, last_predict, returned,
                 summary, response>>

\* main() loads the model before it looks at the URL
main_load_model ==
  /\ pc = "main_load_model"
  /\ UNCHANGED conc_vars
  /\ UNCHANGED run_vars
  /\ LET r == load_model_service(req.model_family)
     IN /\ accesses' = accesses \o r.accesses
        /\ IF r.error = "none"
           THEN /\ model_service' = <<[model_family |-> r.family,
                                      model_version |-> r.version,
                                      conf |-> <<>>]>>
                /\ pc' = "handle_analysis"
                /\ UNCHANGED <<error, outcome, shown>>
           ELSE /\ Fail(r.error, "YoloModel")
                /\ UNCHANGED model_service
  /\ UNCHANGED <<entry, req, env, video_frames_dict, frame_idx,
                 inference_results, last_predict, returned, summary, response>>

\* handle_analysis up to the construction of VideoData: validate_input warns
\* about an empty URL and returns; the exception of VideoData is shown
handle_analysis ==
  /\ pc = "handle_analysis"
  /\ UNCHANGED conc_vars
  /\ UNCHANGED run_vars
  /\ IF req.url = ""
     THEN /\ pc' = "done"
          /\ outcome' = "warning"
          /\ shown' = "Please enter a URL"
          /\ UNCHANGED error
     ELSE IF validators_url(req.url)
          THEN /\ pc' = "prep_service"
               /\ UNCHANGED <<error, outcome, shown>>
          ELSE Fail("InvalidURL", "VideoData")
  /\ UNCHANGED <<entry, req, accesses, model_service, env, video_frames_dict,
                 frame_idx, inference_results, last_predict, returned,
                 summary, response>>

\* the keyword arguments each caller gives to DataPreparationService
prep_service_kwargs ==
  IF entry = "service" THEN {"video_obj"} ELSE {"video_obj", "number_frames"}

\* DataPreparationService(...)
prep_service ==
  /\ pc = "prep_service"
  /\ UNCHANGED conc_vars
  /\ UNCHANGED run_vars
  /\ IF prep_service_init_accepts(prep_service_kwargs)
     THEN /\ pc' = "load_model"
          /\ UNCHANGED <<error, outcome, shown>>
     ELSE Fail("TypeError", "DataPreparationService")
  /\ UNCHANGED <<entry, req, accesses, model_service, env, video_frames_dict,
                 frame_idx, inference_results, last_predict, returned,
                 summary, response>>

\* YoloModel(model_family, model_version), directly or through
\* load_model_service
construct_model ==
  /\ pc = "load_model"
  /\ UNCHANGED conc_vars
  /\ UNCHANGED run_vars
  /\ LET r == IF req.via = "YoloModel"
              THEN LET m == load_model(req.model_family, req.model_version)
                   IN [error |-> m.error, accesses |-> m.accesses,
                       loaded |-> m.loaded, family |-> req.model_family,
                       version |-> req.model_version]
              ELSE load_model_service(req.model_family)
     IN /\ accesses' = accesses \o r.accesses
        /\ IF r.loaded
           THEN /\ model_service' = <<[model_family |-> r.family,
                                      model_version |-> r.version,
                                      conf |-> <<>>]>>
                /\ pc' = IF entry = "model" THEN "predict"
                         ELSE "analyzer_service"
                /\ UNCHANGED <<error, outcome, shown>>
           ELSE /\ Fail(r.error, "YoloModel")
                /\ UNCHANGED model_service
  /\ UNCHANGED <<entry, req, env, video_frames_dict, frame_idx,
                 inference_results, last_predict, returned, summary, response>>

\* AnalyzerService(prep_service, model_service, target_name)
analyzer_service ==
  /\ pc = "analyzer_service"
  /\ UNCHANGED conc_vars
  /\ UNCHANGED run_vars
  /\ pc' = "download_stream"
  /\ UNCHANGED <<entry, req, error, outcome, shown, accesses, model_service,
                 env,
                 video_frames_dict, frame_idx, inference_results,
                 last_predict, returned, summary, response>>

\* the record kept of one call of predict
predict_call(image, target_name, model_confidence, r) ==
  [image |-> image, target_name |-> target_name,
   model_confidence |-> model_confidence, error |-> r.error,
   class_summary |-> r.class_summary, variant |-> r.variant]

\* predict(image, target_name, model_confidence) called on the loaded model
direct_predict ==
  /\ pc = "predict"
  /\ UNCHANGED conc_vars
  /\ UNCHANGED run_vars
  /\ \E image \in Frames, model_ok \in BOOLEAN :
       LET r == predict(model_service[1].model_family, image,
                        req.target_item, req.model_confidence, model_ok)
       IN /\ model_service' = <<[model_service[1] EXCEPT !.conf = <<r.conf>>]>>
          /\ last_predict' = <<predict_call(image, req.target_item,
                                            req.model_confidence, r)>>
          /\ IF r.error = "none"
             THEN /\ pc' = "done"
                  /\ outcome' = "returned"
                  /\ UNCHANGED <<error, shown>>
             ELSE Fail(r.error, "predict")
  /\ UNCHANGED <<entry, req, accesses, env, video_frames_dict, frame_idx,
                 inference_results, returned, summary, response>>

\* ------------------------------------------------- frame extraction
\* download_stream creating the scratch directory before it looks at the
\* streams
download_stream_steps_directory_first(has_stream) ==
  IF ~has_stream
  THEN [error |-> "NoStreamAvailable",
        accesses |-> <<"mkdir", "stream_lookup">>]
  ELSE [error |-> "none",
        accesses |-> <<"mkdir", "stream_lookup", "download">>]

\* the body of VideoData.download_stream: the error it raises and the
\* external accesses it makes, in order
download_stream_steps(has_stream) ==
  IF ~has_stream
  THEN [error |-> "NoStreamAvailable", accesses |-> <<"stream_lookup">>]
  ELSE [error |-> "none",
        accesses |-> <<"stream_lookup", "mkdir", "download">>]

\* VideoData.download_stream, called first by extraction_of_video_frames and
\* last by download_video: the stream lookup, the scratch directory and the
\* download
download_stream ==
  /\ pc = "download_stream"
  /\ UNCHANGED conc_vars
  /\ UNCHANGED run_vars
  /\ \E has_stream \in BOOLEAN :
       LET d == download_stream_steps(has_stream)
       IN /\ accesses' = accesses \o d.accesses
          /\ IF d.error # "none"
             THEN /\ Fail(d.error, "download_stream")
                  /\ env' = [has_stream |-> FALSE, file_exists |-> FALSE,
                             frames |-> <<>>]
             ELSE /\ \/ env' = [has_stream |-> TRUE, file_exists |-> FALSE,
                                frames |-> <<>>]
                     \/ \E video \in Videos :
                          env' = [has_stream |-> TRUE, file_exists |-> TRUE,
                                  frames |-> video]
                  /\ IF entry = "download_video"
                     THEN /\ pc' = "done"
                          /\ outcome' = "returned"
                          /\ UNCHANGED <<error, shown>>
                     ELSE /\ pc' = "open_video"
                          /\ UNCHANGED <<error, outcome, shown>>
  /\ UNCHANGED <<entry, req, model_service, video_frames_dict, frame_idx,
                 inference_results, last_predict, returned, summary, response>>

\* the extraction without the check of the path
path_error_unchecked(file_exists) == "none"

\* `if not Path(video_local_filepath).exists(): raise FileNotFoundError`
path_error(file_exists) ==
  IF ~file_exists THEN "FileNotFoundError" ELSE "none"

\* the check of the downloaded path and cv2.VideoCapture(path)
open_video ==
  /\ pc = "open_video"
  /\ UNCHANGED conc_vars
  /\ UNCHANGED run_vars
  /\ IF path_error(env.file_exists) # "none"
     THEN /\ Fail(path_error(env.file_exists), "extraction_of_video_frames")
          /\ UNCHANGED <<accesses, video_frames_dict, frame_idx>>
     ELSE /\ accesses' = accesses \o <<"decode_open">>
          /\ video_frames_dict' = <<>>
          /\ frame_idx' = 0
          /\ pc' = "read_frame"
          /\ UNCHANGED <<error, outcome, shown>>
  /\ UNCHANGED <<entry, req, model_service, env, inference_results,
                 last_predict, returned, summary, response>>

\* one turn of the read loop of extraction_of_video_frames; leaving the loop
\* returns video_frames_dict to run_image_analysis
read_frame ==
  /\ pc = "read_frame"
  /\ UNCHANGED conc_vars
  /\ UNCHANGED run_vars
  /\ LET ret == frame_idx < Len(env.frames)
     IN IF ~ret \/ frame_idx = HardFrameCap
        THEN /\ pc' = "inference"
             /\ UNCHANGED <<video_frames_dict, frame_idx>>
        ELSE /\ video_frames_dict' =
                  Append(video_frames_dict, env.frames[frame_idx + 1])
             /\ frame_idx' = frame_idx + 1
             /\ UNCHANGED pc
  /\ UNCHANGED <<entry, req, error, outcome, shown, accesses, model_service,
                 env,
                 inference_results, last_predict, returned, summary, response>>

\* ------------------------------------------------- run_image_analysis
\* run_image_analysis catching the exception and returning what it has
run_image_analysis_result_so_far(results, e) == <<results>>

\* what run_image_analysis hands to its caller: the mapping when no exception
\* was raised, nothing when one propagates
run_image_analysis_result(results, e) ==
  IF e = "none" THEN <<results>> ELSE <<>>

\* a loop that is left as soon as one frame has a result
for_loop_exhausted_after_first(results, frames) ==
  Len(results) >= (IF Len(frames) = 0 THEN 0 ELSE 1)

\* the for loop over video_frames_dict.items() has no item left
for_loop_exhausted(results, frames) == Len(results) = Len(frames)

\* one turn of the inference loop: predict(image, target_name) on the next
\* frame, with the default confidence of predict's signature
predict_frame ==
  /\ pc = "inference"
  /\ UNCHANGED conc_vars
  /\ UNCHANGED run_vars
  /\ ~for_loop_exhausted(inference_results, video_frames_dict)
  /\ \E model_ok \in BOOLEAN :
       LET image == video_frames_dict[Len(inference_results) + 1]
           r == predict(model_service[1].model_family, image, req.target_item,
                        <<model_confidence_value>>, model_ok)
       IN /\ model_service' =
               <<[model_service[1] EXCEPT !.conf = <<r.conf>>]>>
          /\ last_predict' = <<predict_call(image, req.target_item,
                                            <<model_confidence_value>>, r)>>
          /\ IF r.error = "none"
             THEN /\ inference_results' =
                       Append(inference_results,
                              AnalysisResults(image, image, r.class_summary))
                  /\ UNCHANGED <<pc, error, outcome, shown, returned>>
             ELSE /\ Fail(r.error, "predict")
                  /\ returned' =
                       run_image_analysis_result(inference_results, r.error)
                  /\ UNCHANGED inference_results
  /\ UNCHANGED <<entry, req, accesses, env, video_frames_dict, frame_idx,
                 summary, response>>

\* the loop is over: run_image_analysis returns inference_results
run_return ==
  /\ pc = "inference"
  /\ UNCHANGED conc_vars
  /\ UNCHANGED run_vars
  /\ for_loop_exhausted(inference_results, video_frames_dict)
  /\ returned' = run_image_analysis_result(inference_results, "none")
  /\ pc' = "consolidate_results"
  /\ UNCHANGED <<entry, req, error, outcome, shown, accesses, model_service,
                 env,
                 video_frames_dict, frame_idx, inference_results,
                 last_predict, summary, response>>

\* ------------------------------------------------- consolidate_results
\* target_items_counts after the loop over the frames' results
RECURSIVE target_items_counts(_)
target_items_counts(results) ==
  IF results = <<>> THEN EmptyDict
  ELSE CounterAdd(target_items_counts(SubSeq(results, 1, Len(results) - 1)),
                  results[Len(results)].inference_results)

\* list(d.keys()): the keys of a dict as a list
RECURSIVE keys_list(_)
keys_list(keys) ==
  IF keys = {} THEN <<>>
  ELSE LET k == CHOOSE x \in keys : TRUE
       IN <<k>> \o keys_list(keys \ {k})

\* the keyword arguments consolidate_results gives to AnalyzeVideoResponse
response_kwargs(counts, url) ==
  [names |-> {"target_item", "video_url", "summary"},
   target_item |-> TargetList(keys_list(DOMAIN counts)),
   video_url |-> url, summary |-> counts]

\* AnalyzerService.consolidate_results
consolidate_results ==
  /\ pc = "consolidate_results"
  /\ UNCHANGED conc_vars
  /\ UNCHANGED run_vars
  /\ LET counts == target_items_counts(returned[1])
         kwargs == response_kwargs(counts, req.url)
     IN /\ summary' = counts
        /\ IF response_validates(kwargs)
           THEN /\ response' = <<kwargs>>
                /\ pc' = "done"
                /\ outcome' = "returned"
                /\ UNCHANGED <<error, shown>>
           ELSE /\ Fail("ValidationError", "consolidate_results")
                /\ UNCHANGED response
  /\ UNCHANGED <<entry, req, accesses, model_service, env, video_frames_dict,
                 frame_idx, inference_results, last_predict, returned>>

\* ------------------------------------------------------------------ spec
Next ==
  \/ ApiRequest
  \/ DashboardRequest
  \/ ServiceRequest
  \/ ModelRequest
  \/ DownloadVideoRequest
  \/ video_data
  \/ main_load_model
  \/ handle_analysis
  \/ prep_service
  \/ construct_model
  \/ analyzer_service
  \/ direct_predict
  \/ download_stream
  \/ open_video
  \/ read_frame
  \/ predict_frame
  \/ run_return
  \/ consolidate_results

Spec == Init /\ [][Next]_vars

(***************************************************************************)
(* Several requests in one process.  Each request runs the steps of the    *)
(* pipeline above on its own objects; what the requests share is the file  *)
(* system under /tmp and the process that loads the model weights.  The    *)
(* steps of different requests interleave freely.                          *)
(***************************************************************************)

frame_car == [c \in ClassIds |-> IF c = 2 THEN 1 ELSE 0]
frame_car_dog == [c \in ClassIds |-> 1]

\* the videos the requests' URLs resolve to
ConcurrentVideos == {<<>>, <<frame_car>>, <<frame_car_dog, frame_car>>}

\* what a request is made with: the endpoint, the services composed by a
\* caller, or a caller of predict with its own confidence
ConcurrentInputs ==
  [kind : {"api"}, url : {default_video_url, "not-a-url"},
   target : {TargetStr(car)}, family : {"yolov5"}, conf : {<<>>},
   video : {<<frame_car>>}]
  \cup
  [kind : {"service"}, url : {default_video_url},
   target : {TargetStr(car), TargetNone}, family : ModelChoices,
   conf : {<<>>}, video : ConcurrentVideos]
  \cup
  [kind : {"model"}, url : {default_video_url}, target : {TargetStr(car)},
   family : ModelChoices, conf : {<<10>>, <<150>>},
   video : {<<frame_car_dog>>}]

\* the keyword arguments a request constructs DataPreparationService with
concurrent_prep_service_kwargs(kind) ==
  IF kind = "service" THEN {"video_obj"} ELSE {"video_obj", "number_frames"}

\* the confidence a request passes to predict
concurrent_confidence(q) ==
  IF q.kind = "model" THEN q.conf ELSE <<model_confidence_value>>

pinned_output_path(existing) == 1

\* tempfile.NamedTemporaryFile().name: a name no existing entry of /tmp has
fresh_output_path(existing) ==
  CHOOSE p \in 1..(Cardinality(existing) + 1) : p \notin existing

\* the file system after a download to path
written(fs, path, video) ==
  [p \in DOMAIN fs \cup {path} |-> IF p = path THEN video ELSE fs[p]]

seq_vars == <<entry, req, pc, error, outcome, shown, accesses, model_service,
              env, video_frames_dict, frame_idx, inference_results,
              last_predict, returned, summary, response>>

concurrent_fail(r, e) ==
  requests' = [requests EXCEPT ![r].pc = "failed", ![r].error = e]

concurrent_request(r) ==
  /\ UNCHANGED seq_vars
  /\ UNCHANGED run_vars
  /\ requests[r].pc = "start"
  /\ \E inp \in ConcurrentInputs :
       requests' =
         [requests EXCEPT
            ![r] = [NoRequestState EXCEPT
                      !.pc = IF inp.kind = "model" THEN "load_model"
                             ELSE "video_data",
                      !.kind = inp.kind, !.url = inp.url,
                      !.target = inp.target, !.family = inp.family,
                      !.conf = inp.conf, !.video = inp.video]]
  /\ UNCHANGED <<files, models, loads>>

concurrent_video_data(r) ==
  /\ UNCHANGED seq_vars
  /\ UNCHANGED run_vars
  /\ requests[r].pc = "video_data"
  /\ IF validators_url(requests[r].url)
     THEN requests' = [requests EXCEPT ![r].pc = "prep_service"]
     ELSE concurrent_fail(r, "InvalidURL")
  /\ UNCHANGED <<files, models, loads>>

concurrent_prep_service(r) ==
  /\ UNCHANGED seq_vars
  /\ UNCHANGED run_vars
  /\ requests[r].pc = "prep_service"
  /\ IF prep_service_init_accepts(
          concurrent_prep_service_kwargs(requests[r].kind))
     THEN requests' = [requests EXCEPT ![r].pc = "load_model"]
     ELSE concurrent_fail(r, "TypeError")
  /\ UNCHANGED <<files, models, loads>>

\* load_model_service: a new YoloModel, whose constructor loads the weights
concurrent_load_model(r) ==
  /\ UNCHANGED seq_vars
  /\ UNCHANGED run_vars
  /\ requests[r].pc = "load_model"
  /\ LET m == load_model_service(requests[r].family)
     IN IF m.loaded
        THEN /\ loads' = Append(loads, [family |-> m.family,
                                        version |-> m.version])
             /\ models' = Append(models, <<>>)
             /\ requests' =
                  [requests EXCEPT
                     ![r].model = Len(models) + 1,
                     ![r].frames = IF requests[r].kind = "model"
                                   THEN requests[r].video ELSE <<>>,
                     ![r].pc = IF requests[r].kind = "model"
                               THEN "inference" ELSE "download_stream"]
        ELSE /\ concurrent_fail(r, m.error)
             /\ UNCHANGED <<models, loads>>
  /\ UNCHANGED files

concurrent_download_stream(r) ==
  /\ UNCHANGED seq_vars
  /\ UNCHANGED run_vars
  /\ requests[r].pc = "download_stream"
  /\ LET output_path == fresh_output_path(DOMAIN files)
     IN /\ files' = written(files, output_path, requests[r].video)
        /\ requests' = [requests EXCEPT ![r].path = output_path,
                                        ![r].pc = "extraction"]
  /\ UNCHANGED <<models, loads>>

\* extraction_of_video_frames: the frames of the file at the request's path
concurrent_extraction(r) ==
  /\ UNCHANGED seq_vars
  /\ UNCHANGED run_vars
  /\ requests[r].pc = "extraction"
  /\ IF path_error(requests[r].path \in DOMAIN files) # "none"
     THEN concurrent_fail(r, path_error(requests[r].path \in DOMAIN files))
     ELSE requests' =
            [requests EXCEPT
               ![r].frames =
                  SubSeq(files[requests[r].path], 1,
                         IF Len(files[requests[r].path]) < HardFrameCap
                         THEN Len(files[requests[r].path])
                         ELSE HardFrameCap),
               ![r].pc = "inference"]
  /\ UNCHANGED <<files, models, loads>>

\* predict, first half: self.model.conf = model_confidence
concurrent_set_conf(r) ==
  /\ UNCHANGED seq_vars
  /\ UNCHANGED run_vars
  /\ requests[r].pc = "inference"
  /\ Len(requests[r].results) < Len(requests[r].frames)
  /\ models' =
       [models EXCEPT
          ![requests[r].model] =
             <<checked_confidence(concurrent_confidence(requests[r]))>>]
  /\ requests' = [requests EXCEPT ![r].pc = "model_call"]
  /\ UNCHANGED <<files, loads>>

\* predict, second half: the model runs with the confidence it holds
concurrent_model_call(r) ==
  /\ UNCHANGED seq_vars
  /\ UNCHANGED run_vars
  /\ requests[r].pc = "model_call"
  /\ LET q == requests[r]
         image == q.frames[Len(q.results) + 1]
         conf == models[q.model][1]
         p == IF q.family = "yolov8"
              THEN predict_yolov8(image, conf, q.target, TRUE)
              ELSE predict_yolov5(image, conf, q.target, TRUE)
     IN IF p.error # "none"
        THEN requests' = [requests EXCEPT
                            ![r].pc = "failed", ![r].error = p.error,
                            ![r].confs = Append(q.confs, p.conf),
                            ![r].returned =
                               run_image_analysis_result(q.results, p.error)]
        ELSE requests' =
               [requests EXCEPT
                  ![r].pc = "inference",
                  ![r].confs = Append(q.confs, p.conf),
                  ![r].results =
                     Append(q.results,
                            AnalysisResults(image, image, p.class_summary))]
  /\ UNCHANGED <<files, models, loads>>

\* run_image_analysis returns, then consolidate_results; a caller of predict
\* is done with its one image
concurrent_return(r) ==
  /\ UNCHANGED seq_vars
  /\ UNCHANGED run_vars
  /\ requests[r].pc = "inference"
  /\ Len(requests[r].results) = Len(requests[r].frames)
  /\ LET q == requests[r]
         counts == target_items_counts(q.results)
     IN IF q.kind = "model"
        THEN requests' = [requests EXCEPT
                            ![r].pc = "done",
                            ![r].returned =
                               run_image_analysis_result(q.results, "none")]
        ELSE requests' =
               [requests EXCEPT
                  ![r].returned =
                     run_image_analysis_result(q.results, "none"),
                  ![r].summary = counts,
                  ![r].pc = IF response_validates(
                                 response_kwargs(counts, q.url))
                            THEN "done" ELSE "failed",
                  ![r].error = IF response_validates(
                                    response_kwargs(counts, q.url))
                               THEN "none" ELSE "ValidationError"]
  /\ UNCHANGED <<files, models, loads>>

NextConcurrent ==
  \/ \E r \in Requests : concurrent_request(r)
  \/ \E r \in Requests : concurrent_video_data(r)
  \/ \E r \in Requests : concurrent_prep_service(r)
  \/ \E r \in Requests : concurrent_load_model(r)
  \/ \E r \in Requests : concurrent_download_stream(r)
  \/ \E r \in Requests : concurrent_extraction(r)
  \/ \E r \in Requests : concurrent_set_conf(r)
  \/ \E r \in Requests : concurrent_model_call(r)
  \/ \E r \in Requests : concurrent_return(r)

SpecConcurrent == Init /\ [][NextConcurrent]_vars

(***************************************************************************)
(* One call of AnalyzerService.run_image_analysis followed by              *)
(* consolidate_results, with the two dicts of the code kept as their items *)
(* in insertion order, and with videos longer than the cap of the read     *)
(* loop.                                                                   *)
(***************************************************************************)

frame_empty == [c \in ClassIds |-> 0]

\* a video with more frames than the read loop keeps
long_video ==
  [i \in 1..(HardFrameCap + 2) |->
     IF i % 3 = 1 THEN frame_car
     ELSE IF i % 3 = 2 THEN frame_car_dog ELSE frame_empty]

RunVideos == ConcurrentVideos \cup {long_video}

RunInputs ==
  [video : RunVideos, family : ModelChoices,
   target : {TargetStr(car), TargetNone}]

\* d[k] = v on a dict
dict_set(d, k, v) ==
  IF \E i \in 1..Len(d) : d[i].key = k
  THEN [i \in 1..Len(d) |->
          IF d[i].key = k THEN [key |-> k, value |-> v] ELSE d[i]]
  ELSE Append(d, [key |-> k, value |-> v])

\* list(d.values())
dict_values(d) == [i \in 1..Len(d) |-> d[i].value]

\* video_cv.read() after `reads` earlier calls
capture_read(video, reads) ==
  IF reads < Len(video)
  THEN [ret |-> TRUE, frame |-> <<video[reads + 1]>>]
  ELSE [ret |-> FALSE, frame |-> <<>>]

\* a read loop that is left at the end of the stream only
read_loop_breaks_at_end_of_stream(ret, idx) == ~ret

\* if not ret or frame_idx == 500: break
read_loop_breaks(ret, idx) == ~ret \/ idx = HardFrameCap

next_frame_idx_skipping(idx) == idx + 2

\* frame_idx += 1
next_frame_idx(idx) == idx + 1

\* a loop body that saves every result under the first index
run_loop_body_under_first_key(results, item, class_summary) ==
  dict_set(results, 0,
           AnalysisResults(item.value, item.value, class_summary))

\* the end of the for loop's body: the frame's results object is saved under
\* the frame's index
run_loop_body(results, item, class_summary) ==
  dict_set(results, item.key,
           AnalysisResults(item.value, item.value, class_summary))

\* video_results[idx] = frame_result on a list of `slots` empty lists
list_set_error(slots, idx) ==
  IF idx >= slots THEN "IndexError" ELSE "none"

\* the construction of the response from the counts
response_error(counts) ==
  IF response_validates(response_kwargs(counts, default_video_url))
  THEN "none" ELSE "ValidationError"

run_start ==
  /\ run_pc = "start"
  /\ \E inp \in RunInputs : run_in' = inp
  /\ run_pc' = "download"
  /\ UNCHANGED <<capture_reads, frames_dict, extract_idx, loop_pos,
                 results_dict, predict_calls, run_returned, consolidate_pos,
                 run_counts, run_error>>
  /\ UNCHANGED <<seq_vars, conc_vars>>

\* extraction_of_video_frames up to the loop: download, path check, capture
run_download ==
  /\ run_pc = "download"
  /\ \E has_stream \in BOOLEAN, file_exists \in BOOLEAN :
       LET e == IF download_stream_steps(has_stream).error # "none"
                THEN download_stream_steps(has_stream).error
                ELSE path_error(file_exists)
       IN IF e # "none"
          THEN /\ run_pc' = "failed"
               /\ run_error' = e
          ELSE /\ run_pc' = "read"
               /\ UNCHANGED run_error
  /\ frames_dict' = <<>>
  /\ extract_idx' = 0
  /\ UNCHANGED <<run_in, capture_reads, loop_pos, results_dict,
                 predict_calls, run_returned, consolidate_pos, run_counts>>
  /\ UNCHANGED <<seq_vars, conc_vars>>

\* one turn of the while loop; leaving it returns video_frames_dict and
\* run_image_analysis starts with an empty inference_results
run_read ==
  /\ run_pc = "read"
  /\ LET r == capture_read(run_in.video, capture_reads)
     IN /\ capture_reads' = capture_reads + 1
        /\ IF read_loop_breaks(r.ret, extract_idx)
           THEN /\ run_pc' = "loop"
                /\ UNCHANGED <<frames_dict, extract_idx>>
           ELSE /\ frames_dict' = dict_set(frames_dict, extract_idx,
                                           r.frame[1])
                /\ extract_idx' = next_frame_idx(extract_idx)
                /\ UNCHANGED run_pc
  /\ UNCHANGED <<run_in, loop_pos, results_dict, predict_calls, run_returned,
                 consolidate_pos, run_counts, run_error>>
  /\ UNCHANGED <<seq_vars, conc_vars>>

\* one turn of the for loop over video_frames_dict.items()
run_predict ==
  /\ run_pc = "loop"
  /\ loop_pos < Len(frames_dict)
  /\ \E model_ok \in BOOLEAN :
       LET item == frames_dict[loop_pos + 1]
           p == predict(run_in.family, item.value, run_in.target,
                        <<model_confidence_value>>, model_ok)
       IN /\ predict_calls' = Append(predict_calls, item.key)
          /\ IF p.error # "none"
             THEN /\ run_pc' = "failed"
                  /\ run_error' = p.error
                  /\ UNCHANGED <<results_dict, loop_pos>>
             ELSE /\ results_dict' =
                       run_loop_body(results_dict, item, p.class_summary)
                  /\ loop_pos' = loop_pos + 1
                  /\ UNCHANGED <<run_pc, run_error>>
  /\ UNCHANGED <<run_in, capture_reads, frames_dict, extract_idx,
                 run_returned, consolidate_pos, run_counts>>
  /\ UNCHANGED <<seq_vars, conc_vars>>

\* return inference_results
run_finish ==
  /\ run_pc = "loop"
  /\ loop_pos = Len(frames_dict)
  /\ run_returned' = <<results_dict>>
  /\ run_pc' = "returned"
  /\ UNCHANGED <<run_in, capture_reads, frames_dict, extract_idx, loop_pos,
                 results_dict, predict_calls, consolidate_pos, run_counts,
                 run_error>>
  /\ UNCHANGED <<seq_vars, conc_vars>>

\* one turn of the loop of consolidate_results
run_consolidate ==
  /\ run_pc = "returned"
  /\ consolidate_pos < Len(run_returned[1])
  /\ LET item == run_returned[1][consolidate_pos + 1]
         e == list_set_error(Len(run_returned[1]), item.key)
     IN IF e # "none"
        THEN /\ run_pc' = "failed"
             /\ run_error' = e
             /\ UNCHANGED <<consolidate_pos, run_counts>>
        ELSE /\ run_counts' =
                  CounterAdd(run_counts, item.value.inference_results)
             /\ consolidate_pos' = consolidate_pos + 1
             /\ UNCHANGED <<run_pc, run_error>>
  /\ UNCHANGED <<run_in, capture_reads, frames_dict, extract_idx, loop_pos,
                 results_dict, predict_calls, run_returned>>
  /\ UNCHANGED <<seq_vars, conc_vars>>

\* return AnalyzeVideoResponse(...)
run_respond ==
  /\ run_pc = "returned"
  /\ consolidate_pos = Len(run_returned[1])
  /\ run_error' = response_error(run_counts)
  /\ run_pc' = IF response_error(run_counts) = "none" THEN "done" ELSE "failed"
  /\ UNCHANGED <<run_in, capture_reads, frames_dict, extract_idx, loop_pos,
                 results_dict, predict_calls, run_returned, consolidate_pos,
                 run_counts>>
  /\ UNCHANGED <<seq_vars, conc_vars>>

NextRun ==
  \/ run_start
  \/ run_download
  \/ run_read
  \/ run_predict
  \/ run_finish
  \/ run_consolidate
  \/ run_respond

SpecRun == Init /\ [][NextRun]_vars

\* the call is one sequential program: it takes its next step
FairSpecRun == SpecRun /\ WF_vars(NextRun)

\* ================================================================ claims
\* the sum over all frames of the frame's count for class c
RECURSIVE SumOverFrames(_, _)
SumOverFrames(results, c) ==
  IF results = <<>> THEN 0
  ELSE Get(results[1].inference_results, c) + SumOverFrames(Tail(results), c)

\* consolidate_results has been applied to the mapping in `returned`
Consolidated == returned # <<>> /\ pc \in {"done", "failed"}

\* C1: for every mapping of per-frame results given to consolidate_results,
\* a summary is returned, and the count it reports for each class c is the
\* sum over all frames of the frame's count for c.
C1_SummaryIsSumOverFrames ==
  Consolidated =>
    /\ response # <<>>
    /\ \A c \in class_names :
         Get(response[1].summary, c) = SumOverFrames(returned[1], c)

\* extraction_of_video_frames has returned its frames to run_image_analysis
Extracted == pc = "inference"

\* C2: for a valid URL and a decodable video, the number of frames that
\* extraction returns exceeds neither the frame cap configured for the
\* request (number_frames) nor the number of frames of the video.
C2_FramesWithinRequestedCap ==
  Extracted =>
    /\ Len(video_frames_dict) <= req.number_frames
    /\ Len(video_frames_dict) <= Len(env.frames)

\* C3: the class_counts that predict returns for a requested target contain
\* only keys that are the requested class name (compared without case); a
\* detected class whose name merely occurs inside the target text is left out.
C3_OnlyRequestedClasses ==
  (last_predict # <<>> /\ last_predict[1].error = "none"
     /\ last_predict[1].target_name.kind = "str") =>
    DOMAIN last_predict[1].class_summary
      \subseteq {lower(last_predict[1].target_name.str)}

\* C4: when no target class filter is given (target_name is None), predict
\* returns the counts of all classes detected in the frame and does not fail
\* (unless the model itself raises).
C4_NoFilterReturnsAllClasses ==
  (last_predict # <<>> /\ last_predict[1].target_name.kind = "none"
     /\ last_predict[1].error # "InferenceError") =>
    /\ last_predict[1].error = "none"
    /\ last_predict[1].class_summary
         = value_counts_by_name(last_predict[1].image)

\* C5: for every analysis whose frames were all analysed, the response that
\* consolidate_results builds carries the request's video_url and the
\* request's target_item, whatever was detected.
C5_ResponseEchoesRequest ==
  Consolidated =>
    /\ response # <<>>
    /\ response[1].video_url = req.url
    /\ response[1].target_item = req.target_item

\* C6: predict never fails because of the confidence: a confidence that is
\* missing or outside (0, 1] reaches the model as the default 0.45, one inside
\* (0, 1] reaches it unchanged, and a failure of predict comes from the target
\* or from the model.
C6_ConfidenceNormalised ==
  last_predict # <<>> =>
    LET given == last_predict[1].model_confidence
    IN /\ model_service # <<>>
       /\ model_service[1].conf =
            IF given = <<>> THEN <<45>>
            ELSE IF given[1] > 0 /\ given[1] <= 100 THEN given
                 ELSE <<45>>
       /\ last_predict[1].error = "AttributeError"
            => last_predict[1].target_name.kind # "str"
       /\ last_predict[1].error \in {"none", "AttributeError", "InferenceError"}

\* an out-of-range confidence was given and the model got the default
C6_Witness ==
  /\ last_predict # <<>>
  /\ last_predict[1].model_confidence = <<150>>
  /\ model_service[1].conf = <<45>>
  /\ last_predict[1].error = "none"

\* C7: a URL that fails validation is rejected with the invalid-URL error
\* before any external access (model hub, stream lookup, download, decode)
\* was made for the request.
C7_InvalidUrlBeforeAnyAccess ==
  error = "InvalidURL" => accesses = <<>>

\* C8: a model family that is not accepted fails with the
\* unsupported-model-family error, before any video download.
C8_UnsupportedFamilyError ==
  (pc = "failed" /\ req.model_family \notin {"yolov5", "yolov8"}
     /\ error # "InvalidURL") =>
    /\ error = "InvalidModelFamily"
    /\ \A i \in 1..Len(accesses) : accesses[i] # "download"

\* YoloModel(model_family, model_version) has been called by the request
ModelConstructed ==
  /\ req.via = "YoloModel"
  /\ pc \notin {"idle", "video_data", "prep_service", "load_model"}
  /\ error \notin {"InvalidURL", "TypeError"}

\* C9: for an accepted family, a version outside the family's accepted list
\* fails with the unsupported-model-version error and loads no model; an
\* accepted version loads the model and does not raise that error.
C9_VersionChecked ==
  (ModelConstructed /\ req.model_family \in {"yolov5", "yolov8"}) =>
    LET accepted == IF req.model_family = "yolov5"
                    THEN {"yolov5n", "yolov5s"}
                    ELSE {"yolov8n.pt", "yolov8n-seg.pt"}
    IN IF req.model_version \in accepted
       THEN /\ model_service # <<>>
            /\ model_service[1].model_version = req.model_version
            /\ error # "InvalidModelVersion"
            /\ \E i \in 1..Len(accesses) : accesses[i] = "hub_load"
       ELSE /\ error = "InvalidModelVersion"
            /\ pc = "failed"
            /\ model_service = <<>>
            /\ \A i \in 1..Len(accesses) : accesses[i] # "hub_load"

\* an accepted family was given a version it does not accept
C9_Witness ==
  /\ ModelConstructed
  /\ req.model_family = "yolov8"
  /\ req.model_version = "yolov5s"
  /\ error = "InvalidModelVersion"

\* the errors that download, extraction and inference raise
RunErrors == {"NoStreamAvailable", "FileNotFoundError", "AttributeError",
              "InferenceError"}

\* how often an external access occurs in the log
Occurrences(log, a) == Cardinality({i \in 1..Len(log) : log[i] = a})

\* C10: no partial results: when download, extraction or the inference of a
\* frame fails, run_image_analysis returns no mapping and the request ends in
\* failure; a returned mapping has one entry per extracted frame; nothing is
\* tried twice and a failed request stays failed.
C10_NoPartialResults ==
  /\ [](/\ (entry = "service" /\ error \in RunErrors) =>
              (returned = <<>> /\ pc = "failed" /\ outcome = "raised")
        /\ returned # <<>> => Len(returned[1]) = Len(video_frames_dict)
        /\ Occurrences(accesses, "stream_lookup") <= 1
        /\ Occurrences(accesses, "download") <= 1
        /\ Occurrences(accesses, "decode_open") <= 1)
  /\ [][pc = "failed" => (pc' = "failed" /\ returned' = returned)]_vars

\* the inference of a later frame failed after earlier frames had succeeded
C10_Witness ==
  /\ entry = "service"
  /\ error = "InferenceError"
  /\ Len(inference_results) >= 1
  /\ returned = <<>>

\* C11: in the HTTP endpoint every failure raised in a stage of the request
\* becomes an HTTP 500 response whose detail is the error's message, and no
\* failure becomes a success response.
C11_EndpointFailuresAreHttp500 ==
  entry = "api" =>
    /\ error # "none" => (pc = "failed" /\ outcome = "http500" /\ shown = error)
    /\ outcome \in {"none", "http500"}
    /\ outcome = "http500" => error # "none"

\* the endpoint answered a failure that is not a ValueError
C11_Witness ==
  /\ entry = "api"
  /\ error = "TypeError"
  /\ outcome = "http500"
  /\ shown = "TypeError"

\* C12: in the dashboard every failure in a stage of an analysis is shown to
\* the user as a warning carrying the error; none is silently discarded.
C12_DashboardFailuresAreShown ==
  (entry = "dashboard" /\ error # "none") =>
    (outcome = "warning" /\ shown = error)

\* how far the request got in frame extraction
StreamLookedUp == Occurrences(accesses, "stream_lookup") > 0
Downloaded == Occurrences(accesses, "download") > 0

\* the download was made by extraction_of_video_frames
DownloadedForExtraction == Downloaded /\ entry # "download_video"

\* C13: frame extraction fails with the file-not-found error whenever the
\* path returned by the download does not exist, and then the video is never
\* opened and no frame is read.
C13_MissingFileIsNotOpened ==
  /\ (DownloadedForExtraction /\ ~env.file_exists /\ pc # "open_video") =>
       /\ error = "FileNotFoundError"
       /\ pc = "failed"
       /\ Occurrences(accesses, "decode_open") = 0
       /\ video_frames_dict = <<>>
       /\ frame_idx = 0
  /\ error = "FileNotFoundError" =>
       (DownloadedForExtraction /\ ~env.file_exists)

\* the download returned a path that does not exist and extraction refused it
C13_Witness ==
  /\ DownloadedForExtraction
  /\ ~env.file_exists
  /\ error = "FileNotFoundError"

\* C14: frame extraction fails with a decode error when no frame can be read
\* from the file; it never returns an empty frame sequence as a success.
C14_EmptyVideoIsAnError ==
  (pc \in {"inference", "consolidate_results"} \/ returned # <<>>) =>
    video_frames_dict # <<>>

\* C15: download_stream fails with the no-stream-available error whenever the
\* video has no stream of the requested extension, and then no scratch
\* directory is created and no file is written.
C15_NoStreamNothingWritten ==
  /\ (StreamLookedUp /\ ~env.has_stream) =>
       /\ error = "NoStreamAvailable"
       /\ pc = "failed"
       /\ Occurrences(accesses, "mkdir") = 0
       /\ Occurrences(accesses, "download") = 0
  /\ error = "NoStreamAvailable" => (StreamLookedUp /\ ~env.has_stream)
  /\ Occurrences(accesses, "mkdir") > 0 => StreamLookedUp /\ env.has_stream

\* the lookup found no stream and download_stream raised
C15_Witness ==
  /\ StreamLookedUp
  /\ ~env.has_stream
  /\ error = "NoStreamAvailable"

\* C19: download_video(url) returns a video object (not None) whose url is
\* the url it was given and whose raw_video is an empty list, for any url
\* string, as test_download_video asserts for "url@youtube.com".
C19_DownloadVideoReturnsVideo ==
  (entry = "download_video" /\ pc \in {"done", "failed"}) =>
    /\ outcome = "returned"
    /\ error = "none"
    /\ {"url", "raw_video"} \subseteq video_data_attributes

\* the smaller of two numbers
Min(a, b) == IF a <= b THEN a ELSE b

\* C18: the settings of a request override the defaults: the frame cap of the
\* request is the one extraction stops at, and a confidence chosen for the
\* request is the one every frame's inference is run with.
C18_RequestSettingsAreUsed ==
  /\ Extracted =>
       Len(video_frames_dict) = Min(Len(env.frames), req.number_frames)
  /\ (last_predict # <<>> /\ req.model_confidence # <<>>) =>
       model_service[1].conf = <<checked_confidence(req.model_confidence)>>

\* the detections of a frame, all classes together
RECURSIVE SumOfCounts(_)
SumOfCounts(d) ==
  IF DOMAIN d = {} THEN 0
  ELSE LET k == CHOOSE x \in DOMAIN d : TRUE
       IN d[k] + SumOfCounts([x \in DOMAIN d \ {k} |-> d[x]])

\* C20: under a target class filter the counts that predict returns for a
\* frame sum to at most the detections the model made in the frame, and each
\* returned count is the model's count for that class.
C20_FilterKeepsCounts ==
  (last_predict # <<>> /\ last_predict[1].error = "none") =>
    LET image == last_predict[1].image
        class_summary == last_predict[1].class_summary
    IN /\ SumOfCounts(class_summary) <= SumOfCounts(image)
       /\ \A k \in DOMAIN class_summary :
            \E i \in ClassIds :
              model_names[i] = k /\ class_summary[k] = image[i]

\* two classes were detected in the frame and the filter kept one of them
C20_Witness ==
  /\ last_predict # <<>>
  /\ last_predict[1].error = "none"
  /\ last_predict[1].target_name = TargetStr(car)
  /\ \A i \in ClassIds : last_predict[1].image[i] > 0
  /\ DOMAIN last_predict[1].class_summary = {car}

\* C16: in one process the weights of a (family, version) are loaded at most
\* once, whatever the order and interleaving of the requests that use them.
C16_WeightsLoadedAtMostOnce ==
  \A i, j \in 1..Len(loads) : loads[i] = loads[j] => i = j

\* what a request leaves its caller with
outcome_of(q) ==
  [error |-> q.error, returned |-> q.returned, summary |-> q.summary]

\* run_image_analysis over the frames, with no other request in the process
RECURSIVE run_alone(_, _, _)
run_alone(q, remaining, results) ==
  IF remaining = <<>>
  THEN [error |-> "none", results |-> results]
  ELSE LET p == predict(q.family, Head(remaining), q.target,
                        concurrent_confidence(q), TRUE)
       IN IF p.error # "none"
          THEN [error |-> p.error, results |-> results]
          ELSE run_alone(q, Tail(remaining),
                         Append(results,
                                AnalysisResults(Head(remaining),
                                                Head(remaining),
                                                p.class_summary)))

\* the outcome of the request when it is the only one in the process
alone(q) ==
  LET nothing == [error |-> "none", returned |-> <<>>, summary |-> EmptyDict]
      run == run_alone(q, q.video, <<>>)
      counts == target_items_counts(run.results)
  IN IF q.kind # "model" /\ ~validators_url(q.url)
     THEN [nothing EXCEPT !.error = "InvalidURL"]
     ELSE IF q.kind # "model" /\
             ~prep_service_init_accepts(concurrent_prep_service_kwargs(q.kind))
     THEN [nothing EXCEPT !.error = "TypeError"]
     ELSE IF ~load_model_service(q.family).loaded
     THEN [nothing EXCEPT !.error = load_model_service(q.family).error]
     ELSE IF run.error # "none"
     THEN [nothing EXCEPT
             !.error = run.error,
             !.returned = run_image_analysis_result(run.results, run.error)]
     ELSE IF q.kind = "model"
     THEN [nothing EXCEPT !.returned = <<run.results>>]
     ELSE [error |-> IF response_validates(response_kwargs(counts, q.url))
                     THEN "none" ELSE "ValidationError",
           returned |-> <<run.results>>, summary |-> counts]

Ended(r) == requests[r].pc \in {"done", "failed"}

\* C17: whatever the interleaving, a request that has ended has the outcome
\* it has when run alone; the frames it extracted are those of its own video,
\* every inference it ran used its own confidence, and its per-frame results
\* are over its own frames.
C17_RequestsAreIndependent ==
  \A r \in Requests :
    LET q == requests[r]
    IN /\ Ended(r) => outcome_of(q) = alone(q)
       /\ (q.kind = "service" /\ q.pc \in {"inference", "model_call", "done",
                                           "failed"} /\ q.path # 0)
            => q.frames = q.video
       /\ \A i \in 1..Len(q.confs) :
            q.confs[i] = checked_confidence(concurrent_confidence(q))
       /\ \A i \in 1..Len(q.results) :
            q.results[i].original_image = q.video[i]

\* two requests for different videos ended after interleaving: the first to
\* load its model was the second to download, and both analysed frames
C17_Witness ==
  /\ Ended(1) /\ Ended(2)
  /\ requests[1].kind = "service" /\ requests[2].kind = "service"
  /\ requests[1].video # requests[2].video
  /\ requests[1].model = 1 /\ requests[1].path = 2
  /\ requests[2].model = 2 /\ requests[2].path = 1
  /\ requests[1].results # <<>> /\ requests[2].results # <<>>

\* the stage of the analysis the request is in
Stage(p, o) ==
  CASE p \in {"download_stream", "open_video", "read_frame"} -> "Extracting"
    [] p = "inference" -> "PerFrameInference"
    [] p = "consolidate_results" -> "Aggregating"
    [] p = "done" /\ o = "returned" -> "Done"
    [] p = "done" /\ o # "returned" -> "Stopped"
    [] p = "failed" -> "Stopped"
    [] OTHER -> "Idle"

StageRank(stage) ==
  CASE stage = "Idle" -> 0
    [] stage = "Extracting" -> 1
    [] stage = "PerFrameInference" -> 2
    [] stage = "Aggregating" -> 3
    [] stage = "Done" -> 4
    [] OTHER -> 5

Analysis == entry \in {"api", "dashboard", "service"}

RunExtracted ==
  \/ run_pc \in {"loop", "returned", "done"}
  \/ predict_calls # <<>>
  \/ run_returned # <<>>

\* C22: the keys of video_frames_dict are 0, 1, ..., n-1 in this order, with
\* no gap and no repeat, the frame under key i is the i-th frame read, and
\* at the end of the extraction n is the number of frames of the video or
\* the cap of the read loop, whichever is smaller.
C22_FrameIndicesContiguous ==
  /\ \A i \in 1..Len(frames_dict) :
       /\ frames_dict[i].key = i - 1
       /\ frames_dict[i].value = run_in.video[i]
  /\ RunExtracted =>
       Len(frames_dict) = Min(Len(run_in.video), HardFrameCap)

\* the extraction of a video longer than the cap has just returned
C22_Witness ==
  /\ run_pc = "loop"
  /\ loop_pos = 0
  /\ Len(run_in.video) > HardFrameCap
  /\ Len(frames_dict) = HardFrameCap

\* C23: predict is called for the frames in the order of their indices, once
\* each; when run_image_analysis returns, it returns a mapping with one entry
\* per extracted frame, under the frame's index, holding the frame and the
\* outcome of predict on that frame.
C23_OneResultPerFrame ==
  /\ Len(predict_calls) <= Len(frames_dict)
  /\ \A i \in 1..Len(predict_calls) : predict_calls[i] = frames_dict[i].key
  /\ run_pc \in {"returned", "done"} => run_returned # <<>>
  /\ run_returned # <<>> =>
       /\ Len(run_returned[1]) = Len(frames_dict)
       /\ Len(predict_calls) = Len(frames_dict)
       /\ \A i \in 1..Len(frames_dict) :
            /\ run_returned[1][i].key = frames_dict[i].key
            /\ run_returned[1][i].value =
                 AnalysisResults(
                   frames_dict[i].value, frames_dict[i].value,
                   predict(run_in.family, frames_dict[i].value, run_in.target,
                           <<model_confidence_value>>, TRUE).class_summary)

\* run_image_analysis returned the results of two different frames
C23_Witness ==
  /\ run_returned # <<>>
  /\ Len(run_returned[1]) = 2
  /\ run_returned[1][1].value # run_returned[1][2].value

RunEnded == run_pc \in {"done", "failed"}

\* C25: a started analysis ends, completed or failed; the read loop makes at
\* most one read more than the cap and at most one more than the video has
\* frames, and the inference loop makes one call per extracted frame.
C25_AnalysisEnds ==
  /\ [](/\ capture_reads <= HardFrameCap + 1
        /\ capture_reads <= Len(run_in.video) + 1
        /\ Len(predict_calls) <= Len(frames_dict)
        /\ RunEnded /\ run_returned # <<>> =>
             Len(predict_calls) = Len(frames_dict))
  /\ (run_pc = "download") ~> RunEnded

\* the analysis of a video longer than the cap has ended
C25_Witness ==
  /\ RunEnded
  /\ Len(run_in.video) > HardFrameCap + 1
  /\ capture_reads = HardFrameCap + 1
  /\ Len(predict_calls) = HardFrameCap
  /\ consolidate_pos = HardFrameCap

\* C24: for the detections of a frame and a target, the class counts that
\* predict returns are those of the yolov5 path and equally those of the
\* yolov8 path, which give the same mapping from class name to count (and
\* fail alike); predict takes the yolov8 path exactly when the model family
\* is yolov8.
C24_VariantsAgree ==
  last_predict # <<>> =>
    LET c == last_predict[1]
        conf == checked_confidence(c.model_confidence)
        v5 == predict_yolov5(c.image, conf, c.target_name, TRUE)
        v8 == predict_yolov8(c.image, conf, c.target_name, TRUE)
    IN /\ v5.class_summary = v8.class_summary
       /\ v5.error = v8.error
       /\ (c.variant = "yolov8") <=> (model_service[1].model_family = "yolov8")
       /\ c.variant \in {"yolov5", "yolov8"}
       /\ c.error # "InferenceError" =>
            (c.class_summary = v5.class_summary /\ c.error = v5.error)

\* the yolov8 path returned the count of one of two detected classes
C24_Witness ==
  /\ last_predict # <<>>
  /\ last_predict[1].variant = "yolov8"
  /\ model_service[1].model_family = "yolov8"
  /\ last_predict[1].error = "none"
  /\ \A i \in ClassIds : last_predict[1].image[i] > 0
  /\ DOMAIN last_predict[1].class_summary = {dog}

====
